---- MODULE Spec2Model ----
(***************************************************************************)
(* A model of src/main.py: the ImplicationGraph class and the DPLL         *)
(* function with its nested helpers decide and BCP.                        *)
(*                                                                         *)
(* A formula is a sequence of clauses, a clause a sequence of integer      *)
(* literals (Python lists: order and duplicates are kept).  A Python dict  *)
(* is a function whose DOMAIN is the set of its keys.                      *)
(***************************************************************************)
EXTENDS Integers, Sequences, FiniteSets, TLC

VARIABLES formula, assignments, decision_level, implication_graph,
          pc, result, decide_calls, last_call, raised, ops,
          returned, conflict_clause

vars == <<formula, assignments, decision_level, implication_graph,
          pc, result, decide_calls, last_call, raised, ops,
          returned, conflict_clause>>

(***************************************************************************)
(* Bounds of the model.                                                    *)
(***************************************************************************)
\* variables of the input formulas are 1..MaxVar
MaxVar == 2
\* size of an input formula: its number of clauses plus its number of
\* literal occurrences
MaxSize == 6
\* size of the input formulas of the fair specification
MaxLiveSize == 5
\* variables of the literals handed to the graph operations called directly
MaxGraphVar == 1
\* decision levels handed to add_vertex called directly are 0..MaxLevel
MaxLevel == 1
\* length of the clauses handed to add_conflict called directly
MaxConflictLen == 2
\* number of direct calls of graph operations in one behaviour
MaxOps == 3
\* variables of the formulas and assignments handed to BCP and decide called
\* on their own are 1..MaxCallVar
MaxCallVar == 1
\* size of the formulas handed to BCP and decide called on their own
MaxCallSize == 4

(***************************************************************************)
(* Python values.                                                          *)
(***************************************************************************)
\* the label of the conflict node, 'k': a node that is no literal
K == 1000
\* Python's None (conflict_node before a conflict, decide without a literal)
None == 1001

\* the empty dict
EmptyDict == << >>

\* d[k] = v
SetItem(d, k, v) == [x \in (DOMAIN d) \cup {k} |-> IF x = k THEN v ELSE d[x]]

(***************************************************************************)
(* class ImplicationGraph                                                  *)
(***************************************************************************)
\* ImplicationGraph.__init__
NewGraph == [vertices |-> EmptyDict, edges |-> EmptyDict, conflict_node |-> None]

\* ImplicationGraph.add_vertex with the membership test dropped: an existing
\* vertex gets the new level and an empty edge set
add_vertex_overwrite(g, literal, level) ==
    [g EXCEPT !.vertices = SetItem(@, literal, level),
              !.edges = SetItem(@, literal, {})]

\* ImplicationGraph.add_vertex recording the level after the one given
add_vertex_next_level(g, literal, level) ==
    IF literal \notin DOMAIN g.vertices
    THEN [g EXCEPT !.vertices = SetItem(@, literal, level + 1),
                   !.edges = SetItem(@, literal, {})]
    ELSE g

\* ImplicationGraph.add_vertex
add_vertex(g, literal, level) ==
    IF literal \notin DOMAIN g.vertices
    THEN [g EXCEPT !.vertices = SetItem(@, literal, level),
                   !.edges = SetItem(@, literal, {})]
    ELSE g

\* ImplicationGraph.add_edge that creates a missing consequent vertex instead
\* of raising
add_edge_lenient(g, antecedent, consequent) ==
    IF antecedent \notin DOMAIN g.vertices
    THEN [graph |-> g, raised |-> "ValueError"]
    ELSE LET g1 == IF consequent \notin DOMAIN g.vertices
                   THEN [g EXCEPT !.vertices = SetItem(@, consequent, 0),
                                  !.edges = SetItem(@, consequent, {})]
                   ELSE g
         IN [graph |-> [g1 EXCEPT !.edges[antecedent] = @ \cup {consequent}],
             raised |-> "none"]

\* ImplicationGraph.add_edge: the graph after the call and what it raised
add_edge(g, antecedent, consequent) ==
    IF antecedent \notin DOMAIN g.vertices
    THEN [graph |-> g, raised |-> "ValueError"]
    ELSE IF consequent \notin DOMAIN g.vertices
    THEN [graph |-> g, raised |-> "ValueError"]
    ELSE [graph |-> [g EXCEPT !.edges[antecedent] = @ \cup {consequent}],
          raised |-> "none"]

\* the for loop of add_conflict from the i-th literal of the clause on
RECURSIVE conflict_edges(_, _, _)
conflict_edges(g, conflicting_clause, i) ==
    IF i > Len(conflicting_clause)
    THEN [graph |-> g, raised |-> "none"]
    ELSE LET negated_literal == - conflicting_clause[i]
         IN IF negated_literal \in DOMAIN g.vertices
            THEN conflict_edges(
                     [g EXCEPT !.edges[negated_literal] = @ \cup {g.conflict_node}],
                     conflicting_clause, i + 1)
            ELSE [graph |-> g, raised |-> "ValueError"]

\* the for loop of add_conflict passing over a literal whose negation has no
\* vertex
RECURSIVE conflict_edges_skip(_, _, _)
conflict_edges_skip(g, conflicting_clause, i) ==
    IF i > Len(conflicting_clause)
    THEN [graph |-> g, raised |-> "none"]
    ELSE LET negated_literal == - conflicting_clause[i]
         IN IF negated_literal \in DOMAIN g.vertices
            THEN conflict_edges_skip(
                     [g EXCEPT !.edges[negated_literal] = @ \cup {g.conflict_node}],
                     conflicting_clause, i + 1)
            ELSE conflict_edges_skip(g, conflicting_clause, i + 1)

\* ImplicationGraph.add_conflict with the else branch that raises left out
add_conflict_skip(g, conflicting_clause) ==
    conflict_edges_skip([g EXCEPT !.conflict_node = K], conflicting_clause, 1)

\* ImplicationGraph.add_conflict: conflict_node is set first, then the edges
\* are added literal by literal until one negation has no vertex
add_conflict(g, conflicting_clause) ==
    conflict_edges([g EXCEPT !.conflict_node = K], conflicting_clause, 1)

(***************************************************************************)
(* decide (nested in DPLL)                                                 *)
(***************************************************************************)
\* the test of decide without the look at the negation of the literal
is_assigned_same_polarity(literal, a) ==
    literal \in DOMAIN a

\* the test of decide that passes over a literal: it or its negation is a key
\* of assignments
is_assigned(literal, a) ==
    literal \in DOMAIN a \/ (- literal) \in DOMAIN a

\* the places <<i, j>> of the literals formula[i][j], and the order in which
\* the two nested for loops of decide visit them
places(f) == UNION {{<<i, j>> : j \in DOMAIN f[i]} : i \in DOMAIN f}
visited_before(p, q) == p[1] < q[1] \/ (p[1] = q[1] /\ p[2] < q[2])

\* the places at which the loops insert a new key into j_literal_map: the
\* literal is not passed over and has not been visited before
inserts(f, a) ==
    {p \in places(f) :
        /\ ~ is_assigned(f[p[1]][p[2]], a)
        /\ \A q \in places(f) :
              visited_before(q, p) => f[q[1]][q[2]] # f[p[1]][p[2]]}

\* the value j_literal_map ends with for a key: 2 ** len(clause) summed over
\* the occurrences of the literal, here those in the clauses from the i-th on
RECURSIVE score(_, _, _)
score(f, i, literal) ==
    IF i > Len(f) THEN 0
    ELSE (2 ^ Len(f[i])) * Cardinality({j \in DOMAIN f[i] : f[i][j] = literal})
         + score(f, i + 1, literal)

\* decide(formula, assignments, implication_graph): the chosen literal or
\* None.  max(j_literal_map, key=j_literal_map.get, default=None) is the
\* first key, in insertion order, whose value no other key exceeds
decide(f, a) ==
    LET keys == inserts(f, a)
        J(p) == score(f, 1, f[p[1]][p[2]])
    IN IF keys = {} THEN None
       ELSE LET best == CHOOSE p \in keys :
                           /\ \A q \in keys : J(q) <= J(p)
                           /\ \A q \in keys : visited_before(q, p) => J(q) < J(p)
            IN f[best[1]][best[2]]

\* `not chosen_literal`: true of None and of the integer 0
is_falsy(chosen_literal) == chosen_literal = None \/ chosen_literal = 0

(***************************************************************************)
(* BCP (nested in DPLL)                                                    *)
(***************************************************************************)
\* false_count that also counts a literal whose negation is assigned True
false_count_by_negation(clause, a) ==
    Cardinality({i \in DOMAIN clause :
                    \/ clause[i] \in DOMAIN a /\ a[clause[i]] = FALSE
                    \/ (- clause[i]) \in DOMAIN a /\ a[- clause[i]] = TRUE})

\* false_count after the inner loop over the literals of a clause
false_count(clause, a) ==
    Cardinality({i \in DOMAIN clause :
                    clause[i] \in DOMAIN a /\ a[clause[i]] = FALSE})

\* unassigned_literals with the membership test dropped: every literal of the
\* clause is collected
unassigned_literals_all(clause, a) == clause

\* unassigned_literals after the inner loop: the literals that are no key of
\* assignments, in clause order
unassigned_literals(clause, a) ==
    SelectSeq(clause, LAMBDA literal : literal \notin DOMAIN a)

\* the unit-clause test
is_unit_clause(clause, a) ==
    /\ false_count(clause, a) = Len(clause) - 1
    /\ Len(unassigned_literals(clause, a)) = 1

\* a conflict test that passes over the empty clause
is_conflict_clause_nonempty(clause, a) ==
    Len(clause) > 0 /\ false_count(clause, a) = Len(clause)

\* the conflict test
is_conflict_clause(clause, a) ==
    false_count(clause, a) = Len(clause)

\* assignments[literal] = True
assign_true(a, literal) == SetItem(a, literal, TRUE)

\* the loop that updates the implication graph for a unit clause, from the
\* i-th literal of the clause on; add_edge finds both vertices, the
\* antecedent having been added just before when it was missing
RECURSIVE imply(_, _, _, _, _)
imply(g, clause, i, unassigned_literal, level) ==
    IF i > Len(clause) THEN g
    ELSE IF clause[i] = unassigned_literal
    THEN imply(g, clause, i + 1, unassigned_literal, level)
    ELSE LET negated_literal == - clause[i]
             g1 == IF negated_literal \notin DOMAIN g.vertices
                   THEN add_vertex(g, negated_literal, level)
                   ELSE g
         IN imply(add_edge(g1, negated_literal, unassigned_literal).graph,
                  clause, i + 1, unassigned_literal, level)

\* one pass of `for clause in formula` from the i-th clause on.  ret is
\*   "unit"            a unit clause was found and the loop left by break
\*   "conflict"        BCP returned "conflict"
\*   "ValueError"      add_conflict raised
\*   "no_unit_clause"  the loop ended and BCP returned "no_unit_clause"
RECURSIVE scan(_, _, _, _, _)
scan(f, i, a, level, g) ==
    IF i > Len(f)
    THEN [ret |-> "no_unit_clause", assignments |-> a, graph |-> g]
    ELSE LET clause == f[i]
         IN IF is_unit_clause(clause, a)
            THEN LET unassigned_literal == unassigned_literals(clause, a)[1]
                 IN [ret |-> "unit",
                     assignments |-> assign_true(a, unassigned_literal),
                     graph |-> imply(add_vertex(g, unassigned_literal, level),
                                     clause, 1, unassigned_literal, level)]
            ELSE IF is_conflict_clause(clause, a)
            THEN LET r == add_conflict(g, clause)
                 IN [ret |-> IF r.raised = "none" THEN "conflict" ELSE r.raised,
                     assignments |-> a, graph |-> r.graph]
            ELSE scan(f, i + 1, a, level, g)

\* one iteration of BCP's `while True`
bcp_pass(f, a, level, g) == scan(f, 1, a, level, g)

\* BCP without its `while True`: it returns "no_unit_clause" behind the first
\* unit clause it has propagated
BCP_once(f, a, level, g) ==
    LET r == bcp_pass(f, a, level, g)
    IN IF r.ret = "unit" THEN [r EXCEPT !.ret = "no_unit_clause"] ELSE r

\* BCP(formula, assignments, decision_level, implication_graph), a whole
\* call: the passes of `while True` until one of them returns or raises
RECURSIVE BCP(_, _, _, _)
BCP(f, a, level, g) ==
    LET r == bcp_pass(f, a, level, g)
    IN IF r.ret = "unit" THEN BCP(f, r.assignments, level, r.graph) ELSE r

\* the clause a pass of BCP hands to add_conflict: the first clause that
\* passes the conflict test, no clause before it being a unit clause
clause_in_conflict(f, a) ==
    f[CHOOSE i \in DOMAIN f :
         /\ is_conflict_clause(f[i], a)
         /\ \A j \in 1..(i - 1) : ~ is_conflict_clause(f[j], a)]

(***************************************************************************)
(* The inputs.                                                             *)
(***************************************************************************)
\* the nonzero literals over the variables 1..n
Literals(n) == ((- n)..n) \ {0}

\* the sequences over S of length at most n
SeqsUpTo(S, n) == UNION {[1..k -> S] : k \in 0..n}

\* the clause lengths of the formulas of size at most n: a formula of k
\* clauses of lengths l1..lk has size k + l1 + .. + lk
RECURSIVE Shapes(_)
Shapes(n) ==
    {<< >>} \cup
    (IF n = 0 THEN {}
     ELSE UNION {{<<l>> \o s : s \in Shapes(n - 1 - l)} : l \in 0..(n - 1)})

\* the formulas over the literals S whose clauses, from the i-th on, have the
\* lengths shape[i..]
RECURSIVE FormulasOfShape(_, _, _)
FormulasOfShape(S, shape, i) ==
    IF i > Len(shape) THEN {<< >>}
    ELSE {<<c>> \o f : c \in [1..shape[i] -> S],
                       f \in FormulasOfShape(S, shape, i + 1)}

\* the arguments of the graph operations called directly
GraphLiterals == Literals(MaxGraphVar)
GraphLevels == 0..MaxLevel
ConflictClauses == SeqsUpTo(GraphLiterals, MaxConflictLen)

(***************************************************************************)
(* DPLL(formula)                                                           *)
(***************************************************************************)
\* the state DPLL starts from on a formula over the literals S of size at
\* most n
InitOn(S, n) ==
    /\ \E shape \in Shapes(n) : formula \in FormulasOfShape(S, shape, 1)
    /\ assignments = EmptyDict
    /\ decision_level = 0
    /\ implication_graph = NewGraph
    /\ pc = "initial_bcp"
    /\ result = "none"
    /\ decide_calls = 0
    /\ last_call = "none"
    /\ raised = "none"
    /\ ops = 0
    /\ returned = "none"
    /\ conflict_clause = << >>

Init == InitOn(Literals(MaxVar), MaxSize)

\* formulas in which the literal 0 may occur
InitZero == InitOn((- MaxVar)..MaxVar, MaxSize)

InitLive == InitOn(Literals(MaxVar), MaxLiveSize)

\* one iteration of the loop of the BCP call that checks for immediate
\* conflicts
InitialBCP ==
    /\ pc = "initial_bcp"
    /\ \E r \in {bcp_pass(formula, assignments, decision_level, implication_graph)} :
          /\ assignments' = r.assignments
          /\ implication_graph' = r.graph
          /\ CASE r.ret = "unit" ->
                    pc' = "initial_bcp" /\ result' = result
               [] r.ret = "conflict" ->
                    pc' = "done" /\ result' = "Unsatisfiable"
               [] r.ret = "no_unit_clause" ->
                    pc' = "decide" /\ result' = result
               [] OTHER ->
                    pc' = "done" /\ result' = r.ret
    /\ UNCHANGED <<formula, decision_level, decide_calls, last_call, raised, ops,
                   returned, conflict_clause>>

\* the head of the main loop without `decision_level += 1`
Decide_level_kept ==
    /\ pc = "decide"
    /\ decide_calls' = decide_calls + 1
    /\ \E chosen_literal \in {decide(formula, assignments)} :
          IF is_falsy(chosen_literal)
          THEN /\ pc' = "done"
               /\ result' = "Satisfiable"
               /\ UNCHANGED <<assignments, decision_level>>
          ELSE /\ assignments' = assign_true(assignments, chosen_literal)
               /\ decision_level' = decision_level
               /\ pc' = "bcp"
               /\ result' = result
    /\ UNCHANGED <<formula, implication_graph, last_call, raised, ops,
                   returned, conflict_clause>>

\* the head of the main loop: decide, then return "Satisfiable" or assign the
\* chosen literal and open a decision level
Decide ==
    /\ pc = "decide"
    /\ decide_calls' = decide_calls + 1
    /\ \E chosen_literal \in {decide(formula, assignments)} :
          IF is_falsy(chosen_literal)
          THEN /\ pc' = "done"
               /\ result' = "Satisfiable"
               /\ UNCHANGED <<assignments, decision_level>>
          ELSE /\ assignments' = assign_true(assignments, chosen_literal)
               /\ decision_level' = decision_level + 1
               /\ pc' = "bcp"
               /\ result' = result
    /\ UNCHANGED <<formula, implication_graph, last_call, raised, ops,
                   returned, conflict_clause>>

\* one iteration of the loop of a BCP call of the main loop.  On "conflict"
\* the loop calls analyze_conflict(implication_graph, decision_level), a
\* function of no parameters: the call raises TypeError
LoopBCP ==
    /\ pc = "bcp"
    /\ \E r \in {bcp_pass(formula, assignments, decision_level, implication_graph)} :
          /\ assignments' = r.assignments
          /\ implication_graph' = r.graph
          /\ CASE r.ret = "unit" ->
                    pc' = "bcp" /\ result' = result
               [] r.ret = "conflict" ->
                    pc' = "done" /\ result' = "TypeError"
               [] r.ret = "no_unit_clause" ->
                    pc' = "decide" /\ result' = result
               [] OTHER ->
                    pc' = "done" /\ result' = r.ret
    /\ UNCHANGED <<formula, decision_level, decide_calls, last_call, raised, ops,
                   returned, conflict_clause>>

Next == InitialBCP \/ Decide \/ LoopBCP

Spec == Init /\ [][Next]_vars

\* DPLL on formulas that may hold the literal 0
SpecZero == InitZero /\ [][Next]_vars

\* DPLL is one sequential function: a step that can be taken is taken
SpecLive == InitLive /\ [][Next]_vars /\ WF_vars(Next)

(***************************************************************************)
(* The operations of an ImplicationGraph called directly, in any order.    *)
(***************************************************************************)
InitGraph ==
    /\ formula = << >>
    /\ assignments = EmptyDict
    /\ decision_level = 0
    /\ implication_graph = NewGraph
    /\ pc = "graph"
    /\ result = "none"
    /\ decide_calls = 0
    /\ last_call = "none"
    /\ raised = "none"
    /\ ops = 0
    /\ returned = "none"
    /\ conflict_clause = << >>

dpll_vars == <<formula, assignments, decision_level, pc, result, decide_calls>>

CallAddVertex(literal, level) ==
    /\ pc = "graph" /\ ops < MaxOps
    /\ implication_graph' = add_vertex(implication_graph, literal, level)
    /\ raised' = "none"
    /\ last_call' = "add_vertex"
    /\ ops' = ops + 1
    /\ UNCHANGED dpll_vars
    /\ UNCHANGED <<returned, conflict_clause>>

CallAddEdge(antecedent, consequent) ==
    /\ pc = "graph" /\ ops < MaxOps
    /\ LET r == add_edge(implication_graph, antecedent, consequent)
       IN implication_graph' = r.graph /\ raised' = r.raised
    /\ last_call' = "add_edge"
    /\ ops' = ops + 1
    /\ UNCHANGED dpll_vars
    /\ UNCHANGED <<returned, conflict_clause>>

CallAddConflict(conflicting_clause) ==
    /\ pc = "graph" /\ ops < MaxOps
    /\ LET r == add_conflict(implication_graph, conflicting_clause)
       IN implication_graph' = r.graph /\ raised' = r.raised
    /\ last_call' = "add_conflict"
    /\ ops' = ops + 1
    /\ UNCHANGED dpll_vars
    /\ UNCHANGED <<returned, conflict_clause>>

AddVertexStep == \E literal \in GraphLiterals, level \in GraphLevels :
                    CallAddVertex(literal, level)
AddEdgeStep == \E antecedent \in GraphLiterals, consequent \in GraphLiterals :
                    CallAddEdge(antecedent, consequent)
AddConflictStep == \E conflicting_clause \in ConflictClauses :
                    CallAddConflict(conflicting_clause)

NextGraph == AddVertexStep \/ AddEdgeStep \/ AddConflictStep

SpecGraph == InitGraph /\ [][NextGraph]_vars

(***************************************************************************)
(* BCP and decide called on their own, on any formula and any dict of      *)
(* assignments, and BCP called between direct calls of the graph           *)
(* operations.                                                             *)
(***************************************************************************)
\* the dicts with keys in S and values True or False
Dicts(S) == UNION {[D -> BOOLEAN] : D \in SUBSET S}

InitCalls ==
    /\ \E shape \in Shapes(MaxCallSize) :
          formula \in FormulasOfShape(Literals(MaxCallVar), shape, 1)
    /\ assignments \in Dicts(Literals(MaxCallVar))
    /\ decision_level \in GraphLevels
    /\ implication_graph = NewGraph
    /\ pc = "graph"
    /\ result = "none"
    /\ decide_calls = 0
    /\ last_call = "none"
    /\ raised = "none"
    /\ ops = 0
    /\ returned = "none"
    /\ conflict_clause = << >>

\* res = BCP(formula, assignments, decision_level, implication_graph);
\* conflict_clause keeps the clause the call has handed to add_conflict
CallBCP ==
    /\ pc = "graph"
    /\ \E r \in {BCP(formula, assignments, decision_level, implication_graph)} :
          /\ assignments' = r.assignments
          /\ implication_graph' = r.graph
          /\ IF r.ret = "ValueError"
             THEN raised' = "ValueError" /\ returned' = "none"
             ELSE raised' = "none" /\ returned' = r.ret
          /\ conflict_clause' =
                IF r.ret \in {"conflict", "ValueError"}
                THEN clause_in_conflict(formula, r.assignments)
                ELSE conflict_clause
    /\ last_call' = "BCP"
    /\ UNCHANGED <<formula, decision_level, pc, result, decide_calls, ops>>

\* chosen_literal = decide(formula, assignments, implication_graph)
CallDecide ==
    /\ pc = "graph"
    /\ returned' = decide(formula, assignments)
    /\ raised' = "none"
    /\ last_call' = "decide"
    /\ UNCHANGED <<formula, assignments, decision_level, implication_graph,
                   pc, result, decide_calls, ops, conflict_clause>>

NextCalls == CallBCP \/ CallDecide

SpecCalls == InitCalls /\ [][NextCalls]_vars

\* add_conflict called directly; conflict_clause keeps the clause handed over
CallAddConflictOn(conflicting_clause) ==
    /\ pc = "graph" /\ ops < MaxOps
    /\ LET r == add_conflict(implication_graph, conflicting_clause)
       IN implication_graph' = r.graph /\ raised' = r.raised
    /\ last_call' = "add_conflict"
    /\ ops' = ops + 1
    /\ conflict_clause' = conflicting_clause
    /\ UNCHANGED dpll_vars
    /\ UNCHANGED returned

AddConflictOnStep == \E conflicting_clause \in ConflictClauses :
                        CallAddConflictOn(conflicting_clause)

NextGraphCalls == AddVertexStep \/ AddEdgeStep \/ AddConflictOnStep \/ CallBCP

SpecGraphCalls == InitCalls /\ [][NextGraphCalls]_vars

(***************************************************************************)
(* Properties of DPLL.                                                     *)
(***************************************************************************)
HasEmptyClause == \E i \in DOMAIN formula : formula[i] = << >>

HasZeroLiteral == \E i \in DOMAIN formula : \E j \in DOMAIN formula[i] :
                     formula[i][j] = 0

\* the literal is assigned true
IsTrue(literal) == literal \in DOMAIN assignments /\ assignments[literal] = TRUE

\* some truth assignment of the variables makes every clause hold a true
\* literal; T is the set of the true variables
BruteForceSatisfiable ==
    \E T \in SUBSET (1..MaxVar) :
       \A i \in DOMAIN formula : \E j \in DOMAIN formula[i] :
          LET l == formula[i][j]
          IN (l > 0 /\ l \in T) \/ (l < 0 /\ (- l) \notin T)

\* C1 (soundness): when DPLL returns "Satisfiable", every clause of the
\* formula holds a literal that the final assignment makes true.
C1_Soundness ==
    (pc = "done" /\ result = "Satisfiable") =>
        \A i \in DOMAIN formula : \E j \in DOMAIN formula[i] : IsTrue(formula[i][j])

\* C2 (verdict): the verdict DPLL returns is the verdict of the brute-force
\* check over all truth assignments.
C2_VerdictIsBruteForce ==
    pc = "done" =>
        /\ result \in {"Satisfiable", "Unsatisfiable"}
        /\ (result = "Satisfiable") <=> BruteForceSatisfiable

\* C3 (termination): every run of DPLL reaches a return, and what it returns
\* is "Satisfiable" or "Unsatisfiable".
C3_Termination ==
    <>(pc = "done" /\ result \in {"Satisfiable", "Unsatisfiable"})

\* a run has returned after the loop of BCP went round again behind a unit
\* clause (a vertex was added) and the main loop made a decision
C3_Witness ==
    /\ pc = "done" /\ result = "Satisfiable"
    /\ DOMAIN implication_graph.vertices # {}
    /\ decision_level >= 1

\* C4 (contradiction at level 0): a formula that holds the unit clauses [x]
\* and [-x] is answered "Unsatisfiable" without any decision.
C4_ContradictoryUnits ==
    (/\ pc = "done"
     /\ \E x \in Literals(MaxVar) :
           /\ \E i \in DOMAIN formula : formula[i] = <<x>>
           /\ \E i \in DOMAIN formula : formula[i] = <<- x>>)
    => (result = "Unsatisfiable" /\ decide_calls = 0 /\ decision_level = 0)

\* C5 (mutual exclusion of polarities): at most one of a literal and its
\* negation is a key of the assignment map.
C5_PolaritiesExclusive ==
    \A literal \in DOMAIN assignments :
        literal # 0 => (- literal) \notin DOMAIN assignments

\* C6 (empty clause): on a formula that holds an empty clause, wherever it
\* stands, DPLL never calls decide, never leaves decision level 0, and what
\* it returns is "Unsatisfiable", out of the initial BCP.
C6_EmptyClause ==
    HasEmptyClause =>
        /\ decide_calls = 0
        /\ decision_level = 0
        /\ pc \in {"initial_bcp", "done"}
        /\ pc = "done" => result = "Unsatisfiable"

\* DPLL has returned on a formula whose empty clause stands between two
\* clauses that are not empty
C6_Witness ==
    /\ pc = "done" /\ result = "Unsatisfiable"
    /\ Len(formula) = 3
    /\ formula[1] # << >> /\ formula[2] = << >> /\ formula[3] # << >>

\* C7 (invalid literal): a formula in which the literal 0 occurs is rejected
\* with InvalidLiteral before anything is propagated or decided.
C7_InvalidLiteral ==
    HasZeroLiteral =>
        /\ assignments = EmptyDict
        /\ decide_calls = 0
        /\ pc = "done" => result = "InvalidLiteral"

(***************************************************************************)
(* Properties of the ImplicationGraph operations.                          *)
(***************************************************************************)
\* C8 (add_vertex): a call of add_vertex on a literal that has a vertex
\* leaves vertices, edges and conflict_node as they were, whatever the level;
\* a call on a literal without a vertex records the level given; and no
\* operation changes the level of a vertex, which therefore stays the level
\* of the first add_vertex call on the literal.
C8_AddVertexIdempotent ==
    [][/\ \A literal \in GraphLiterals, level \in GraphLevels :
             CallAddVertex(literal, level) =>
                IF literal \in DOMAIN implication_graph.vertices
                THEN implication_graph' = implication_graph
                ELSE /\ literal \in DOMAIN implication_graph'.vertices
                     /\ implication_graph'.vertices[literal] = level
       /\ \A literal \in DOMAIN implication_graph.vertices :
             /\ literal \in DOMAIN implication_graph'.vertices
             /\ implication_graph'.vertices[literal] =
                   implication_graph.vertices[literal]
      ]_vars

\* the third call was add_vertex on the only vertex, which has an edge
C8_Witness ==
    /\ last_call = "add_vertex" /\ ops = 3
    /\ \E literal \in GraphLiterals :
          /\ DOMAIN implication_graph.vertices = {literal}
          /\ implication_graph.edges[literal] = {literal}

\* C9 (add_edge): add_edge(a, b) raises when a or b has no vertex and then
\* leaves the graph as it was; when both have a vertex it adds b to the set
\* of a and changes nothing else.
C9_AddEdge ==
    [][\A antecedent \in GraphLiterals, consequent \in GraphLiterals :
          CallAddEdge(antecedent, consequent) =>
             IF \/ antecedent \notin DOMAIN implication_graph.vertices
                \/ consequent \notin DOMAIN implication_graph.vertices
             THEN /\ raised' = "ValueError"
                  /\ implication_graph' = implication_graph
             ELSE /\ raised' = "none"
                  /\ implication_graph' =
                        [implication_graph EXCEPT
                            !.edges[antecedent] = @ \cup {consequent}]
      ]_vars

\* add_edge has raised on a graph in which an earlier add_edge went through
C9_Witness ==
    /\ last_call = "add_edge" /\ raised = "ValueError"
    /\ \E literal \in DOMAIN implication_graph.edges :
          implication_graph.edges[literal] # {}

\* C10 (add_conflict): add_conflict(clause) raises exactly when the negation
\* of some literal of the clause has no vertex.
C10_AddConflictRaises ==
    [][\A conflicting_clause \in ConflictClauses :
          CallAddConflict(conflicting_clause) =>
             (raised' = "ValueError" <=>
                \E i \in DOMAIN conflicting_clause :
                   (- conflicting_clause[i]) \notin DOMAIN implication_graph.vertices)
      ]_vars

\* add_conflict has returned, with an edge into the conflict node from every
\* literal
C10_Witness ==
    /\ last_call = "add_conflict" /\ raised = "none"
    /\ \A literal \in GraphLiterals :
          /\ literal \in DOMAIN implication_graph.edges
          /\ K \in implication_graph.edges[literal]

(***************************************************************************)
(* Properties of BCP inside a run of DPLL.  pc = "decide" is the state     *)
(* right after a call of BCP has returned "no_unit_clause".                *)
(***************************************************************************)
\* every literal of the clause has its negation assigned true
FullyFalsified(clause) ==
    \A j \in DOMAIN clause : IsTrue(- clause[j])

\* the clause holds no true literal, the variable of exactly one of its
\* literals is unassigned, and every other literal has its negation assigned
\* true
SemanticUnit(clause) ==
    /\ \A j \in DOMAIN clause : ~ IsTrue(clause[j])
    /\ \E j \in DOMAIN clause :
          /\ clause[j] \notin DOMAIN assignments
          /\ (- clause[j]) \notin DOMAIN assignments
          /\ \A k \in DOMAIN clause : k # j => IsTrue(- clause[k])

\* C11 (no falsified clause): when BCP has returned "no_unit_clause" in a run
\* of DPLL, no clause of the formula has the negation of every one of its
\* literals assigned true.
C11_NoFalsifiedClause ==
    pc = "decide" => \A i \in DOMAIN formula : ~ FullyFalsified(formula[i])

\* C12 (saturation): when BCP has returned "no_unit_clause" in a run of
\* DPLL, no clause of the formula is a unit clause under the assignment.
C12_Saturated ==
    pc = "decide" => \A i \in DOMAIN formula : ~ SemanticUnit(formula[i])

(***************************************************************************)
(* Properties of the conflict node.                                        *)
(***************************************************************************)
\* C13 (conflict node): in every state reached by calls of the graph
\* operations and of BCP, those that raise included, a conflict node that is
\* set has an edge coming in from the vertex of the negation of every literal
\* of the clause that was handed to add_conflict.
C13_ConflictNodeWellFormed ==
    implication_graph.conflict_node # None =>
        \A i \in DOMAIN conflict_clause :
            /\ (- conflict_clause[i]) \in DOMAIN implication_graph.vertices
            /\ implication_graph.conflict_node \in
                   implication_graph.edges[- conflict_clause[i]]

(***************************************************************************)
(* Properties of the implication graph inside a run of DPLL.               *)
(***************************************************************************)
\* C14 (assigned literals have vertices): in every state of a run of DPLL
\* each literal assigned true, by BCP or as a decision, has a vertex, and
\* the level of the vertex of a literal just assigned is the decision level
\* in force at the assignment (for a decision: the level before or after the
\* increment that follows it).
C14_AssignedLiteralHasVertex ==
    [][\A literal \in DOMAIN assignments' :
          /\ literal \in DOMAIN implication_graph'.vertices
          /\ literal \notin DOMAIN assignments =>
                implication_graph'.vertices[literal] \in
                    {decision_level, decision_level'}
      ]_vars

\* C15 (graph consistency): when BCP has returned "no_unit_clause" in a run
\* of DPLL, the level of every vertex is at most the decision level, and
\* both ends of every edge are vertices.
C15_GraphConsistent ==
    pc = "decide" =>
        /\ \A v \in DOMAIN implication_graph.vertices :
               implication_graph.vertices[v] <= decision_level
        /\ \A a \in DOMAIN implication_graph.edges :
               /\ a \in DOMAIN implication_graph.vertices
               /\ \A b \in implication_graph.edges[a] :
                      b \in DOMAIN implication_graph.vertices

\* a call of BCP made after a decision has returned "no_unit_clause" on a
\* graph that holds vertices
C15_Witness ==
    /\ pc = "decide" /\ decision_level >= 1
    /\ DOMAIN implication_graph.vertices # {}

C17_DecisionLevelDiscipline ==
    [][/\ pc = "initial_bcp" => (decision_level = 0 /\ decision_level' = 0)
       /\ pc = "decide" =>
             decision_level' = IF assignments' # assignments
                               THEN decision_level + 1
                               ELSE decision_level
       /\ pc = "bcp" =>
             IF bcp_pass(formula, assignments, decision_level,
                         implication_graph).ret = "conflict"
             THEN pc' = "done" \/ decision_level' < decision_level
             ELSE decision_level' = decision_level
      ]_vars

\* the main loop has assigned its second decision and is about to propagate
C17_Witness ==
    pc = "bcp" /\ decision_level = 2 /\ Cardinality(DOMAIN assignments) >= 2

\* the literals that occur in the formula and are free: neither the literal
\* nor its negation is a key of assignments
FreeLiterals ==
    {l \in {formula[p[1]][p[2]] : p \in places(formula)} :
        l \notin DOMAIN assignments /\ (- l) \notin DOMAIN assignments}

\* 2 ^ |clause| summed over the occurrences of the literal at the places P
RECURSIVE OccurrenceScore(_, _)
OccurrenceScore(P, literal) ==
    IF P = {} THEN 0
    ELSE LET p == CHOOSE q \in P : TRUE
         IN (IF formula[p[1]][p[2]] = literal THEN 2 ^ Len(formula[p[1]]) ELSE 0)
            + OccurrenceScore(P \ {p}, literal)

C20_ConflictOnlyOnEmptyClause ==
    /\ \A literal \in DOMAIN assignments : assignments[literal] = TRUE
    /\ \A i \in DOMAIN formula : false_count(formula[i], assignments) = 0
    /\ pc \in {"initial_bcp", "bcp"} =>
          (bcp_pass(formula, assignments, decision_level,
                    implication_graph).ret = "conflict" =>
              /\ pc = "initial_bcp"
              /\ decision_level = 0 /\ decide_calls = 0
              /\ clause_in_conflict(formula, assignments) = << >>)
    /\ implication_graph.conflict_node # None =>
          /\ pc = "done" /\ result = "Unsatisfiable"
          /\ decision_level = 0 /\ decide_calls = 0
    /\ result # "TypeError"
    /\ result = "Unsatisfiable" => HasEmptyClause

\* a call of BCP made after the second decision has returned
\* "no_unit_clause" although the assignments falsify a clause
C20_Witness ==
    /\ pc = "decide" /\ decision_level = 2
    /\ \E i \in DOMAIN formula : FullyFalsified(formula[i])

====
